---- MODULE Spec2Model ----
(***************************************************************************)
(* Rail Ops: USA -- the job board, market refresh and reward economy.      *)
(*                                                                         *)
(* One player document in Firestore (doc) and the browser clients that     *)
(* have it open.  A client holds playerData, the copy of the document it   *)
(* last received (onSnapshot / refreshPlayerData), and the state of the    *)
(* job dialog (selectedJob, selectedLocos).  Every page handler computes   *)
(* its update from the client's playerData and writes named fields of the  *)
(* document with updateDoc; the achievement claim alone runs in a          *)
(* transaction on the live document.                                       *)
(*                                                                         *)
(* Time is Date.now() in milliseconds counted from the start of an hour,   *)
(* advanced a whole minute at a time; the one-second currentTime ticker of *)
(* the jobs page is below this resolution and currentTime is read as now.  *)
(* Math.random() is a rational num/RandomDen, one draw per generation.     *)
(* An optional field that is absent holds Undefined.                       *)
(***************************************************************************)
EXTENDS Integers, Sequences, FiniteSets, TLC

\* ------------------------------------------------------------------ bounds
MaxOps == 3
MaxNow == 1800000

\* --------------------------------------------------------------- constants
Undefined == 0
MsPerMinute == 60 * 1000
RandomDen == 8
RandomNums == {0, 7}
\* the draw of a market refresh
RefreshNums == {0}
TickMinutes == {29}
Clients == {1, 2}

\* ----------------------------------------------------------------- helpers
Min(a, b) == IF a < b THEN a ELSE b

Max(a, b) == IF a > b THEN a ELSE b

\* Math.floor(n / d) and Math.ceil(n / d) for n >= 0, d > 0
Floor(n, d) == n \div d

Ceil(n, d) == (n + d - 1) \div d

Range(s) == {s[i] : i \in 1..Len(s)}

RECURSIVE SumSeq(_)
SumSeq(s) == IF s = <<>> THEN 0 ELSE Head(s) + SumSeq(Tail(s))

\* ------------------------------------------------------- leveling (schema)
XP_PER_LEVEL ==
  << 0, 200, 450, 750, 1100, 1500, 1950, 2450, 3000, 3600,
     4250, 5000, 5800, 6700, 7700, 8800, 10000, 11300, 12700, 14200 >>

RECURSIVE calculateLevelFrom(_, _)
calculateLevelFrom(xp, i) ==
  IF i < 1 THEN 1
  ELSE IF xp >= XP_PER_LEVEL[i] THEN i
  ELSE calculateLevelFrom(xp, i - 1)

\* a scan that asks for more than the threshold (xp > XP_PER_LEVEL[i])
calculateLevelAbove(xp) == calculateLevelFrom(xp - 1, Len(XP_PER_LEVEL))

calculateLevel(xp) == calculateLevelFrom(xp, Len(XP_PER_LEVEL))

\* getXpForNextLevel(currentLevel): the xp at which currentLevel + 1 begins
getXpForNextLevel(currentLevel) ==
  IF currentLevel >= Len(XP_PER_LEVEL)
  THEN XP_PER_LEVEL[Len(XP_PER_LEVEL)] + (currentLevel - Len(XP_PER_LEVEL) + 1) * 2000
  ELSE XP_PER_LEVEL[currentLevel + 1]

\* ---------------------------------------------------- job generation data
CAR_TYPES ==
  << [type |-> "Boxcar", contents |-> <<"General Freight", "Packaged Goods", "Appliances", "Paper Products">>],
     [type |-> "Covered Hopper", contents |-> <<"Grain", "Wheat", "Corn", "Soybeans", "Flour", "Cement">>],
     [type |-> "Open Hopper", contents |-> <<"Coal", "Aggregate", "Scrap Metal", "Sand">>],
     [type |-> "Tank Car", contents |-> <<"Crude Oil", "Chemicals", "Liquid Fertilizer", "Corn Syrup">>],
     [type |-> "Gondola", contents |-> <<"Steel Coils", "Steel Plates", "Scrap Metal", "Lumber">>],
     [type |-> "Flatcar", contents |-> <<"Steel Beams", "Construction Equipment", "Lumber", "Pipes">>],
     [type |-> "Intermodal", contents |-> <<"Containers (Mixed)", "Containers (Consumer Goods)", "Trailers">>],
     [type |-> "Autorack", contents |-> <<"New Automobiles", "New Trucks", "New SUVs">>] >>

YARD_SWITCHING_TASKS ==
  << "Assemble outbound manifest freight", "Break down incoming unit train",
     "Sort mixed freight by destination", "Spot cars at industrial sidings",
     "Build unit coal train", "Interchange with Class I railroad",
     "Organize intermodal terminal", "Service local industries" >>

FREIGHT_TYPES ==
  << "Coal", "Intermodal", "Grain", "Chemicals", "Steel", "Lumber", "Automotive", "Mixed Manifest" >>

\* Math.floor(Math.random() * n) for the draw r = num / RandomDen
RandomIndex(r, n) == Floor(r * n, RandomDen)

Entry(carType, content, count, weight) ==
  [carType |-> carType, content |-> content, count |-> count, weight |-> weight]

RECURSIVE MixedManifest(_, _, _, _)
\* the loop of the mixed-manifest branch, from iteration i with remainingCars
MixedManifest(r, numTypes, i, remainingCars) ==
  IF ~(i < numTypes /\ remainingCars > 0) THEN <<>>
  ELSE LET carTypes == SelectSeq(CAR_TYPES, LAMBDA c : c.type \notin {"Intermodal", "Autorack"})
           carType == carTypes[RandomIndex(r, Len(carTypes)) + 1]
           count == IF i = numTypes - 1 THEN remainingCars
                    ELSE Ceil(remainingCars, numTypes - i)
           content == carType.contents[RandomIndex(r, Len(carType.contents)) + 1]
       IN <<Entry(carType.type, content, count, 80 + Floor(r * 40, RandomDen))>> \o
          MixedManifest(r, numTypes, i + 1, remainingCars - count)

\* Math.floor(totalCars * 0.7) in IEEE doubles, for totalCars up to 150:
\* 90 * 0.7 is 62.99999999999999, every other product floors as the exact one
FloorSevenTenths(totalCars) ==
  IF totalCars = 90 THEN 62 ELSE Floor(totalCars * 7, 10)

\* a manifest that leaves the trailers of an intermodal train out
generateManifestNoTrailers(freightType, totalCars, r) ==
  IF freightType = "Coal" THEN <<Entry("Open Hopper", "Coal", totalCars, 110)>>
  ELSE IF freightType = "Intermodal" THEN
    <<Entry("Intermodal", "Containers (Mixed)", FloorSevenTenths(totalCars), 75)>>
  ELSE IF freightType = "Grain" THEN
    <<Entry("Covered Hopper", <<"Corn", "Wheat", "Soybeans">>[RandomIndex(r, 3) + 1], totalCars, 100)>>
  ELSE IF freightType = "Chemicals" THEN <<Entry("Tank Car", "Hazardous Chemicals", totalCars, 90)>>
  ELSE IF freightType = "Automotive" THEN <<Entry("Autorack", "New Automobiles", totalCars, 70)>>
  ELSE IF freightType = "Steel" THEN <<Entry("Gondola", "Steel Coils", totalCars, 120)>>
  ELSE MixedManifest(r, Min(3, Max(1, Floor(totalCars, 3))), 0, totalCars)

generateManifest(freightType, totalCars, r) ==
  IF freightType = "Coal" THEN <<Entry("Open Hopper", "Coal", totalCars, 110)>>
  ELSE IF freightType = "Intermodal" THEN
    LET containers == FloorSevenTenths(totalCars)
        trailers == totalCars - containers
    IN <<Entry("Intermodal", "Containers (Mixed)", containers, 75)>> \o
       (IF trailers > 0 THEN <<Entry("Intermodal", "Trailers", trailers, 60)>> ELSE <<>>)
  ELSE IF freightType = "Grain" THEN
    <<Entry("Covered Hopper", <<"Corn", "Wheat", "Soybeans">>[RandomIndex(r, 3) + 1], totalCars, 100)>>
  ELSE IF freightType = "Chemicals" THEN <<Entry("Tank Car", "Hazardous Chemicals", totalCars, 90)>>
  ELSE IF freightType = "Automotive" THEN <<Entry("Autorack", "New Automobiles", totalCars, 70)>>
  ELSE IF freightType = "Steel" THEN <<Entry("Gondola", "Steel Coils", totalCars, 120)>>
  ELSE MixedManifest(r, Min(3, Max(1, Floor(totalCars, 3))), 0, totalCars)

\* ------------------------------------------------------------ generateJobs
numLocalFreight == 4
numYardSwitching == 2
numMainline == 8
numSpecial == 3

Job(id, prefix, seq, tier, jobType, distance, freightType, demandLevel, carCount, manifest, hpRequired, payout, timeMinutes, xpReward, t) ==
  [id |-> id, jobId |-> <<prefix, seq>>, tier |-> tier, jobType |-> jobType,
   distance |-> distance, freightType |-> freightType, demandLevel |-> demandLevel,
   carCount |-> carCount, manifest |-> manifest, hpRequired |-> hpRequired,
   payout |-> payout, timeMinutes |-> timeMinutes, xpReward |-> xpReward,
   status |-> "available", generatedAt |-> t,
   assignedLocos |-> <<>>, startedAt |-> Undefined, completesAt |-> Undefined]

\* a + Math.random() * b as a numerator over RandomDen
Scaled(a, b, r) == a * RandomDen + r * b

LocalFreightJob(i, r, base, t) ==
  LET distance == Scaled(5, 11, r)
      carCount == 4 + RandomIndex(r, 8)
  IN Job(base + i, "LCL", i, 1, "local_freight", Floor(distance, RandomDen),
         "Mixed Manifest", "medium", carCount,
         generateManifest("Mixed Manifest", carCount, r), carCount * 150,
         Floor(distance * carCount * 25, RandomDen),
         Floor(Scaled(8, 7, r), RandomDen), Floor(distance * 5, RandomDen), t)

YardSwitchingJob(i, r, base, t) ==
  LET carCount == 8 + RandomIndex(r, 12)
      task == YARD_SWITCHING_TASKS[RandomIndex(r, Len(YARD_SWITCHING_TASKS)) + 1]
  IN Job(base + numLocalFreight + i, "YRD", i, 1, "yard_switching", 0,
         task, "medium", carCount,
         generateManifest("Mixed Manifest", carCount, r), 1500,
         carCount * 220, Floor(Scaled(6, 4, r), RandomDen), 30 + carCount * 2, t)

MainlineJob(i, r, base, t) ==
  LET freightType == FREIGHT_TYPES[RandomIndex(r, Len(FREIGHT_TYPES)) + 1]
      distance == Scaled(80, 120, r)
      carCount == 15 + RandomIndex(r, 136)
      manifest == generateManifest(freightType, carCount, r)
      totalWeight == SumSeq([k \in 1..Len(manifest) |-> manifest[k].weight * manifest[k].count])
  IN Job(base + i, "MLF", i, 2, "mainline_freight", Floor(distance, RandomDen),
         freightType, "medium", carCount, manifest, Floor(totalWeight * 3, 2),
         Floor(distance * carCount * 30, RandomDen),
         Floor(Scaled(45, 45, r), RandomDen), Floor(distance * 10, RandomDen), t)

SpecialJob(i, r, base, t) ==
  LET freightType == <<"Coal", "Intermodal", "Automotive">>[RandomIndex(r, 3) + 1]
      distance == Scaled(200, 300, r)
      carCount == 40 + RandomIndex(r, 80)
  IN Job(base + i, "SPF", i, 3, "special_freight", Floor(distance, RandomDen),
         freightType, "high", carCount, generateManifest(freightType, carCount, r),
         carCount * 250, Floor(distance * carCount * 55, RandomDen),
         Floor(Scaled(120, 180, r), RandomDen), Floor(distance * 20, RandomDen), t)

\* a generation that leaves out the tiers above tier 1
generateJobsTier1(tier, r, base, t) ==
  IF tier = 1 THEN
    [i \in 1..numLocalFreight |-> LocalFreightJob(i, r, base, t)] \o
    [i \in 1..numYardSwitching |-> YardSwitchingJob(i, r, base, t)]
  ELSE <<>>

\* the jobs of one tier, ids base+1.. in generation order, generatedAt = t
generateJobs(tier, r, base, t) ==
  IF tier = 1 THEN
    [i \in 1..numLocalFreight |-> LocalFreightJob(i, r, base, t)] \o
    [i \in 1..numYardSwitching |-> YardSwitchingJob(i, r, base, t)]
  ELSE IF tier = 2 THEN [i \in 1..numMainline |-> MainlineJob(i, r, base, t)]
  ELSE IF tier = 3 THEN [i \in 1..numSpecial |-> SpecialJob(i, r, base, t)]
  ELSE <<>>

JobsPerMarket == numLocalFreight + numYardSwitching + numMainline + numSpecial

\* [...tier1, ...tier2, ...tier3] of one market generation
FreshMarket(r, base, t) ==
  generateJobs(1, r, base, t) \o
  generateJobs(2, r, base + numLocalFreight + numYardSwitching, t) \o
  generateJobs(3, r, base + numLocalFreight + numYardSwitching + numMainline, t)

\* generateLoanerTrainMarket(): 2-7 listings, each with a fresh id
generateLoanerTrainMarket(r, base) ==
  [i \in 1..(RandomIndex(r, 6) + 2) |-> [id |-> base + i]]

MaxLoaners == 7
UuidsPerMarket == JobsPerMarket + MaxLoaners

\* ---------------------------------------------------------------- the state
VARIABLES doc, playerData, selectedJob, selectedLocos, now, uuid, nops,
          lastOp, expectedCash, credited, rewarded, pendingSweep

vars == <<doc, playerData, selectedJob, selectedLocos, now, uuid, nops,
          lastOp, expectedCash, credited, rewarded, pendingSweep>>

RECURSIVE padStart(_, _)
\* String.prototype.padStart(width, "0")
padStart(s, width) == IF Len(s) >= width THEN s ELSE padStart("0" \o s, width)

\* `#${nextId.toString().padStart(4, "0")}`
UnitNumber(n) == "#" \o padStart(ToString(n), 4)

\* the entries of LOCOMOTIVE_CATALOG the shop is browsed for
LOCOMOTIVE_CATALOG ==
  << [model |-> "EMD GP7", horsepower |-> 1500, purchaseCost |-> 850000, resaleValue |-> 450000],
     [model |-> "EMD GP9", horsepower |-> 1750, purchaseCost |-> 950000, resaleValue |-> 520000] >>

\* a locomotive of the fleet, as company creation and the shop write it
Locomotive(id, n, model, hp, resale, cost) ==
  [id |-> id, unitNumber |-> UnitNumber(n), model |-> model, horsepower |-> hp,
   purchaseCost |-> cost, resaleValue |-> resale, scrapValue |-> Floor(cost * 3, 10),
   mileage |-> 0, health |-> 100, previousOwnerName |-> Undefined,
   status |-> "available", assignedJobId |-> Undefined]

\* the dealership stock of the document: the GP7 with two units left, the
\* GP9 sold out (the generator of the 0-17 units per model is not among the
\* sources)
generateDealershipStock ==
  << [model |-> "EMD GP7", stock |-> 2], [model |-> "EMD GP9", stock |-> 0] >>

Achievement(id, type, requirement, targetValue, progress, cash, points, xp) ==
  [id |-> id, type |-> type, requirement |-> requirement, targetValue |-> targetValue,
   currentProgress |-> progress, isCompleted |-> FALSE, completedAt |-> Undefined,
   rewards |-> [cash |-> cash, points |-> points, xp |-> xp]]

\* the clock when a run starts: one minute past the hour
InitNow == 1 * MsPerMinute

\* the document of a player who has created a company and owns two units
InitDoc(xp, progress) ==
  [stats |-> [cash |-> 500000, xp |-> xp, level |-> calculateLevel(xp),
              nextLocoId |-> 3, points |-> 10, totalJobsCompleted |-> 0],
   locomotives |-> << Locomotive(1, 1, "EMD GP7", 1500, 450000, 850000),
                      Locomotive(2, 2, "EMD GP9", 1750, 520000, 950000) >>,
   jobs |-> <<>>,
   achievements |-> << Achievement(3, "career", "total_jobs_completed", 1, progress, 5000, 5, 500),
                       Achievement(4, "career", "cash_balance", 100000, 0, 0, 10, 1000) >>,
   loanerTrains |-> <<>>,
   loanerTrainsRefreshAt |-> Undefined,
   dealershipStock |-> generateDealershipStock]

\* currentProgress of "Complete your first job" once the job-completion
\* tracking has counted a job (the tracking is documented in the README; its
\* code is not among the sources)
firstJobProgress == 1

NoJob == [id |-> 0]

\* no paint sweep of the client is between its reading and its write
NoSweep == [id |-> 0]

Op(op, c, ok, id, why) == [op |-> op, c |-> c, ok |-> ok, id |-> id, why |-> why]

\* the document once a client has generated the first market with draw r
WithMarket(d, r, t) ==
  [d EXCEPT !.jobs = FreshMarket(r, 4, t),
            !.loanerTrains = generateLoanerTrainMarket(r, 4 + JobsPerMarket),
            !.loanerTrainsRefreshAt = t + 30 * 60 * 1000]

\* ... and once job j of the board has been assigned unit l alone
WithAssignment(d, j, l, t) ==
  [d EXCEPT !.jobs[j].status = "in_progress", !.jobs[j].assignedLocos = <<d.locomotives[l].id>>,
            !.jobs[j].startedAt = t,
            !.jobs[j].completesAt = t + d.jobs[j].timeMinutes * 60 * 1000,
            !.locomotives[l].status = "assigned",
            !.locomotives[l].assignedJobId = d.jobs[j].id]

\* the documents a run starts from, each with the snapshot the second client
\* holds of it: a new board; a generated board; the board with the first
\* local freight job on the GP9, which the second client has not yet seen;
\* and the board with the first yard job on the GP7 as well
InitDocs ==
  LET d0 == InitDoc(3590, firstJobProgress)
      m0 == WithMarket(d0, 7, InitNow)
      m1 == WithAssignment(m0, 1, 2, InitNow)
      m2 == WithAssignment(m1, numLocalFreight + 1, 1, InitNow)
  IN {<<d0, d0>>, <<m0, m0>>, <<m1, m0>>, <<m2, m2>>}

Init ==
  /\ \E p \in InitDocs :
       /\ doc = p[1]
       /\ playerData = [c \in Clients |-> IF c = 1 THEN p[1] ELSE p[2]]
       /\ uuid = IF p[1].jobs = <<>> THEN 4 ELSE 4 + UuidsPerMarket
  /\ selectedJob = [c \in Clients |-> NoJob]
  /\ selectedLocos = [c \in Clients |-> <<>>]
  /\ now = InitNow
  /\ nops = 0
  /\ lastOp = Op("none", 0, TRUE, 0, "")
  /\ expectedCash = doc.stats.cash
  /\ credited = <<>>
  /\ rewarded = <<>>
  /\ pendingSweep = [c \in Clients |-> NoSweep]

\* ------------------------------------------------------ Firestore, as used
NoFields == <<>>

Overlay(rec, upd) == [k \in DOMAIN rec |-> IF k \in DOMAIN upd THEN upd[k] ELSE rec[k]]

\* updateDoc(ref, {field: value, "stats.x": value}): the named fields are
\* overwritten, every other field of the document keeps its stored value
updateDoc(d, fields, statsFields) ==
  Overlay([d EXCEPT !.stats = Overlay(d.stats, statsFields)], fields)

\* onSnapshot: the client receives the stored document
Sync(c) ==
  /\ playerData[c] # doc
  /\ playerData' = [playerData EXCEPT ![c] = doc]
  /\ UNCHANGED <<doc, selectedJob, selectedLocos, now, uuid, nops, lastOp,
                 expectedCash, credited, rewarded>>
  /\ UNCHANGED pendingSweep

Tick ==
  /\ \E d \in TickMinutes :
       /\ now + d * MsPerMinute <= MaxNow
       /\ now' = now + d * MsPerMinute
  /\ UNCHANGED <<doc, playerData, selectedJob, selectedLocos, uuid, nops,
                 lastOp, expectedCash, credited, rewarded>>
  /\ UNCHANGED pendingSweep

\* ------------------------------------------------------------ array helpers
Ids(s) == {s[i].id : i \in 1..Len(s)}

\* Array.prototype.find by id; NoJob when there is none
FindById(s, id) ==
  LET hits == {i \in 1..Len(s) : s[i].id = id}
  IN IF hits = {} THEN NoJob ELSE s[CHOOSE i \in hits : \A k \in hits : i <= k]

Includes(s, x) == \E i \in 1..Len(s) : s[i] = x

WithStatus(s, status) == SelectSeq(s, LAMBDA x : x.status = status)

\* ---------------------------------------------------------- the jobs page
\* a fleet in which every unit counts as available
availableLocosAll(pd) == pd.locomotives

\* locomotives.filter((l) => l.status === "available")
availableLocos(pd) == WithStatus(pd.locomotives, "available")

availableJobs(pd) == WithStatus(pd.jobs, "available")

currentJobs(pd) == WithStatus(pd.jobs, "in_progress")

\* sum + (loco?.horsepower || 0) over the selected ids
totalSelectedHP(pd, sel) ==
  SumSeq([i \in 1..Len(sel) |->
            LET loco == FindById(pd.locomotives, sel[i])
            IN IF loco = NoJob THEN 0 ELSE loco.horsepower])

\* a board without level gates
tierRequirementNone(job) == 0

tierRequirement(job) == IF job.tier = 2 THEN 10 ELSE IF job.tier = 3 THEN 50 ELSE 0

\* the level check of handleAssignJob and handleAssignRandom
AssignLocked(pd, job) == pd.stats.level < tierRequirement(job)

Spend == /\ nops < MaxOps
         /\ nops' = nops + 1

\* tier1Jobs, tier2Jobs, tier3Jobs: the cards of one tab
tierJobs(pd, tier) == SelectSeq(availableJobs(pd), LAMBDA j : j.tier = tier)

\* <Dialog open={!!selectedJob}>: the assignment dialog is modal, the page
\* behind it takes no clicks while a job is selected
DialogOpen(c) == selectedJob[c] # NoJob

\* JobCard onClick: setSelectedJob(job), for the card at the head of a tab.
\* (The tab triggers' disabled attribute is presentation and is not modelled:
\* a card of any tier can be opened.)
SelectJob(c) ==
  /\ Spend
  /\ ~DialogOpen(c)
  /\ \E tier \in 1..3 :
       /\ tierJobs(playerData[c], tier) # <<>>
       /\ LET job == Head(tierJobs(playerData[c], tier))
          IN /\ selectedJob' = [selectedJob EXCEPT ![c] = job]
             /\ lastOp' = Op("select", c, TRUE, job.id, "")
  /\ UNCHANGED <<doc, playerData, selectedLocos, now, uuid,
                 expectedCash, credited, rewarded>>
  /\ UNCHANGED pendingSweep

\* Cancel and onOpenChange(false): setSelectedJob(null); the ticked units stay
CloseDialog(c) ==
  /\ Spend
  /\ DialogOpen(c)
  /\ selectedJob' = [selectedJob EXCEPT ![c] = NoJob]
  /\ lastOp' = Op("close", c, TRUE, selectedJob[c].id, "")
  /\ UNCHANGED <<doc, playerData, selectedLocos, now, uuid,
                 expectedCash, credited, rewarded>>
  /\ UNCHANGED pendingSweep

\* Checkbox onCheckedChange of a unit listed in the dialog
ToggleLoco(c) ==
  /\ Spend
  /\ DialogOpen(c)
  /\ \E i \in 1..Len(availableLocos(playerData[c])) :
       LET id == availableLocos(playerData[c])[i].id
           prev == selectedLocos[c]
       IN /\ selectedLocos' = [selectedLocos EXCEPT ![c] =
                 IF Includes(prev, id) THEN SelectSeq(prev, LAMBDA x : x # id)
                 ELSE Append(prev, id)]
          /\ lastOp' = Op("toggle", c, TRUE, id, "")
  /\ UNCHANGED <<doc, playerData, selectedJob, now, uuid,
                 expectedCash, credited, rewarded>>
  /\ UNCHANGED pendingSweep

RECURSIVE InsertByHp(_, _)
InsertByHp(x, sorted) ==
  IF sorted = <<>> THEN <<x>>
  ELSE IF Head(sorted).horsepower >= x.horsepower
       THEN <<Head(sorted)>> \o InsertByHp(x, Tail(sorted))
       ELSE <<x>> \o sorted

RECURSIVE SortByHp(_)
\* [...locos].sort((a, b) => b.horsepower - a.horsepower), a stable sort
SortByHp(s) ==
  IF s = <<>> THEN <<>>
  ELSE InsertByHp(s[Len(s)], SortByHp(SubSeq(s, 1, Len(s) - 1)))

RECURSIVE Greedy(_, _, _, _, _)
\* the for-of loop: take units until the requirement is met
Greedy(sorted, i, selected, totalHP, hpRequired) ==
  IF i > Len(sorted) \/ totalHP >= hpRequired
  THEN [selected |-> selected, totalHP |-> totalHP]
  ELSE Greedy(sorted, i + 1, Append(selected, sorted[i].id),
              totalHP + sorted[i].horsepower, hpRequired)

handleAssignRandom(c) ==
  /\ Spend
  /\ LET pd == playerData[c]
         job == selectedJob[c]
         sortedLocos == SortByHp(availableLocos(pd))
         g == Greedy(sortedLocos, 1, <<>>, 0, job.hpRequired)
         remainingLocos == SelectSeq(sortedLocos, LAMBDA l : ~Includes(g.selected, l.id))
         \* the 30% chance of one more unit, for the draws r1 and r2
         selected(r1, r2) ==
           IF r1 * 10 > 7 * RandomDen /\ Len(remainingLocos) > 0
           THEN Append(g.selected, remainingLocos[RandomIndex(r2, Len(remainingLocos)) + 1].id)
           ELSE g.selected
     IN /\ job # NoJob
        /\ IF AssignLocked(pd, job)
           THEN /\ lastOp' = Op("assignRandom", c, FALSE, job.id, "Job Locked")
                /\ UNCHANGED selectedLocos
           ELSE IF g.totalHP < job.hpRequired
           THEN /\ lastOp' = Op("assignRandom", c, FALSE, job.id, "Insufficient Horsepower")
                /\ UNCHANGED selectedLocos
           ELSE /\ lastOp' = Op("assignRandom", c, TRUE, job.id, "")
                /\ IF Len(g.selected) < Len(sortedLocos)
                   THEN \E r1 \in RandomNums, r2 \in RandomNums :
                          selectedLocos' = [selectedLocos EXCEPT ![c] = selected(r1, r2)]
                   ELSE selectedLocos' = [selectedLocos EXCEPT ![c] = g.selected]
  /\ UNCHANGED <<doc, playerData, selectedJob, now, uuid,
                 expectedCash, credited, rewarded>>
  /\ UNCHANGED pendingSweep

\* a dialog that accepts any selection
AssignUnderpoweredNever(pd, job, sel) == FALSE

\* the horsepower check of handleAssignJob
AssignUnderpowered(pd, job, sel) == totalSelectedHP(pd, sel) < job.hpRequired

\* a job that completes the moment it starts
completionTimeAtOnce(job, t) == t

\* completionTime = Date.now() + (timeMinutes || 60) * 60 * 1000
completionTime(job, t) ==
  t + (IF job.timeMinutes = 0 THEN 60 ELSE job.timeMinutes) * 60 * 1000

\* handleAssignJob, entered with whatever the dialog holds: the disabled
\* attribute of the Assign Job button repeats the handler's own checks and
\* is not modelled
handleAssignJob(c) ==
  /\ Spend
  /\ LET pd == playerData[c]
         job == selectedJob[c]
         sel == selectedLocos[c]
         updatedJobs == [i \in 1..Len(pd.jobs) |->
            IF pd.jobs[i].id = job.id
            THEN [pd.jobs[i] EXCEPT !.status = "in_progress", !.assignedLocos = sel,
                                    !.startedAt = now,
                                    !.completesAt = completionTime(job, now)]
            ELSE pd.jobs[i]]
         updatedLocos == [i \in 1..Len(pd.locomotives) |->
            IF Includes(sel, pd.locomotives[i].id)
            THEN [pd.locomotives[i] EXCEPT !.status = "assigned", !.assignedJobId = job.id]
            ELSE pd.locomotives[i]]
         reject(why) ==
            /\ lastOp' = Op("assign", c, FALSE, job.id, why)
            /\ UNCHANGED <<doc, playerData, selectedJob, selectedLocos>>
     IN /\ ~(job = NoJob \/ sel = <<>>)
        /\ IF AssignLocked(pd, job) THEN reject("Job Locked")
           ELSE IF AssignUnderpowered(pd, job, sel) THEN reject("Insufficient Horsepower")
           ELSE /\ doc' = updateDoc(doc, [jobs |-> updatedJobs, locomotives |-> updatedLocos], NoFields)
                /\ playerData' = [playerData EXCEPT ![c] = doc']
                /\ selectedJob' = [selectedJob EXCEPT ![c] = NoJob]
                /\ selectedLocos' = [selectedLocos EXCEPT ![c] = <<>>]
                /\ lastOp' = Op("assign", c, TRUE, job.id, "")
  /\ UNCHANGED <<now, uuid, expectedCash, credited, rewarded>>
  /\ UNCHANGED pendingSweep

\* CurrentJobCard: the time left on a job shown in the Current Jobs tab
timeRemaining(job, currentTime) ==
  IF job.completesAt # Undefined THEN Max(0, job.completesAt - currentTime) ELSE 0

\* a card that always renders the button
isCompletedAlways(job, currentTime) == TRUE

\* CurrentJobCard: the Claim Rewards button is rendered only when this holds
isCompleted(job, currentTime) == timeRemaining(job, currentTime) = 0

\* the record of the successful claims: how often id was claimed and the
\* amounts one claim of it credits
Bump(f, id, amounts) ==
  LET n == IF id \in DOMAIN f THEN f[id].n ELSE 0
  IN [k \in DOMAIN f \cup {id} |->
        IF k = id THEN [n |-> n + 1, cash |-> amounts.cash, xp |-> amounts.xp] ELSE f[k]]

\* the fields handleClaimJob writes for the job with this id
ClaimUpdate(pd, jobId) ==
  LET job == FindById(pd.jobs, jobId)
      newXp == pd.stats.xp + job.xpReward
  IN [jobs |-> SelectSeq(pd.jobs, LAMBDA j : j.id # jobId),
      locomotives |-> [i \in 1..Len(pd.locomotives) |->
         IF pd.locomotives[i].assignedJobId = jobId
         THEN [pd.locomotives[i] EXCEPT !.assignedJobId = Undefined, !.status = "available"]
         ELSE pd.locomotives[i]],
      stats |-> [cash |-> pd.stats.cash + job.payout, xp |-> newXp,
                 level |-> calculateLevel(newXp)]]

\* no level-up notification
NoLevelUp == [level |-> 0, unlocks |-> <<>>]

\* the levelUpInfo handleClaimJob sets after the write
LevelUpInfo(oldLevel, newLevel) ==
  IF newLevel > oldLevel
  THEN [level |-> newLevel,
        unlocks |-> (IF newLevel = 10 THEN <<"Mainline Freight Jobs">> ELSE <<>>) \o
                    (IF newLevel = 50 THEN <<"Special Freight Jobs">> ELSE <<>>)]
  ELSE NoLevelUp

\* the outcome of a successful claim, with the notification it raised
ClaimOp(c, jobId, levelUpInfo) ==
  [op |-> "claim", c |-> c, ok |-> TRUE, id |-> jobId, why |-> "", levelUpInfo |-> levelUpInfo]

\* a look at the card of a job in the Current Jobs tab and a click on its
\* Claim Rewards button where the card renders one: handleClaimJob(job.id)
handleClaimJob(c) ==
  /\ Spend
  /\ ~DialogOpen(c)
  /\ \E i \in 1..Len(currentJobs(playerData[c])) :
       LET pd == playerData[c]
           jobId == currentJobs(pd)[i].id
           job == FindById(pd.jobs, jobId)
           u == ClaimUpdate(pd, jobId)
       IN IF ~isCompleted(currentJobs(pd)[i], now)
          THEN /\ lastOp' = Op("claim", c, FALSE, jobId, "not complete")
               /\ UNCHANGED <<doc, playerData, expectedCash, credited>>
          ELSE /\ ~(job = NoJob \/ job.status # "in_progress")
               /\ doc' = updateDoc(doc, [jobs |-> u.jobs, locomotives |-> u.locomotives], u.stats)
               /\ playerData' = [playerData EXCEPT ![c] = doc']
               /\ lastOp' = ClaimOp(c, jobId, LevelUpInfo(pd.stats.level, u.stats.level))
               /\ expectedCash' = expectedCash + job.payout
               /\ credited' = Bump(credited, jobId, [cash |-> job.payout, xp |-> job.xpReward])
  /\ UNCHANGED <<selectedJob, selectedLocos, now, uuid, rewarded>>
  /\ UNCHANGED pendingSweep

\* ----------------------------------------------------- market generation
\* initializeJobsAndMarket: the mount effect of the jobs page
initializeJobsAndMarket(c) ==
  /\ Spend
  /\ LET pd == playerData[c]
         needJobs == Len(pd.jobs) = 0
         needLoaners == Len(pd.loanerTrains) = 0
     IN /\ needJobs \/ needLoaners
        /\ \E r \in RandomNums :
             LET jobFields == IF needJobs THEN [jobs |-> FreshMarket(r, uuid, now)] ELSE NoFields
                 loanerFields ==
                   IF needLoaners
                   THEN [loanerTrains |-> generateLoanerTrainMarket(r, uuid + JobsPerMarket),
                         loanerTrainsRefreshAt |-> now + 30 * 60 * 1000]
                   ELSE NoFields
                 updates == [k \in DOMAIN jobFields \cup DOMAIN loanerFields |->
                               IF k \in DOMAIN jobFields THEN jobFields[k] ELSE loanerFields[k]]
             IN /\ doc' = updateDoc(doc, updates, NoFields)
                /\ playerData' = [playerData EXCEPT ![c] = updateDoc(pd, updates, NoFields)]
        /\ uuid' = uuid + UuidsPerMarket
        /\ lastOp' = Op("initialize", c, TRUE, 0, "")
  /\ UNCHANGED <<selectedJob, selectedLocos, now, expectedCash, credited, rewarded>>
  /\ UNCHANGED pendingSweep

\* now.getMinutes()
getMinutes(t) == (t \div MsPerMinute) % 60

\* the reduce over the available jobs: the first one with the least generatedAt
oldestAvailableJob(pd) ==
  LET av == availableJobs(pd)
      least == {i \in 1..Len(av) : \A k \in 1..Len(av) : av[i].generatedAt <= av[k].generatedAt}
  IN IF av = <<>> THEN NoJob ELSE av[CHOOSE i \in least : \A k \in least : i <= k]

\* a refresh condition that does not look at the age of the jobs
RefreshDueAnyAge(pd, t) ==
  /\ getMinutes(t) \in {0, 30}
  /\ oldestAvailableJob(pd) # NoJob

\* the refresh condition of checkAndRefreshJobs at time t
RefreshDue(pd, t) ==
  /\ getMinutes(t) \in {0, 30}
  /\ oldestAvailableJob(pd) # NoJob
  /\ ~(t - oldestAvailableJob(pd).generatedAt < 29 * 60 * 1000)

\* the jobs a refresh keeps
ongoingJobs(pd) == WithStatus(pd.jobs, "in_progress")

\* checkAndRefreshJobs: the minute timer of the jobs page
checkAndRefreshJobs(c) ==
  /\ Spend
  /\ LET pd == playerData[c]
     IN /\ RefreshDue(pd, now)
        /\ \E r \in RefreshNums :
             LET updates == [jobs |-> ongoingJobs(pd) \o FreshMarket(r, uuid, now),
                             loanerTrains |-> generateLoanerTrainMarket(r, uuid + JobsPerMarket),
                             loanerTrainsRefreshAt |-> now + 30 * 60 * 1000]
             IN /\ doc' = updateDoc(doc, updates, NoFields)
                /\ playerData' = [playerData EXCEPT ![c] = updateDoc(pd, updates, NoFields)]
                /\ uuid' = uuid + UuidsPerMarket
                /\ lastOp' = Op("refresh", c, TRUE, 0, "")
  /\ UNCHANGED <<selectedJob, selectedLocos, now, expectedCash, credited, rewarded>>
  /\ UNCHANGED pendingSweep

\* ------------------------------------------------- the achievements page
\* renderAchievement: the Claim Reward button is rendered only when this holds
ClaimButtonShown(a) == a.currentProgress >= a.targetValue /\ ~a.isCompleted

\* the transaction body of handleClaimReward on the live document
ClaimRewardTransaction(currentData, achievement, t) ==
  [currentData EXCEPT
     !.achievements = [i \in 1..Len(currentData.achievements) |->
        IF currentData.achievements[i].id = achievement.id
        THEN [currentData.achievements[i] EXCEPT !.isCompleted = TRUE, !.completedAt = t]
        ELSE currentData.achievements[i]],
     !.stats.points = @ + achievement.rewards.points,
     !.stats.cash = @ + achievement.rewards.cash,
     !.stats.xp = @ + achievement.rewards.xp]

\* a look at an achievement card and a click on its Claim Reward button
\* where the card renders one: handleClaimReward(achievement)
handleClaimReward(c) ==
  /\ Spend
  /\ ~DialogOpen(c)
  /\ \E i \in 1..Len(playerData[c].achievements) :
       LET achievement == playerData[c].achievements[i]
       IN /\ ClaimButtonShown(achievement)
          /\ ~achievement.isCompleted
          /\ doc' = ClaimRewardTransaction(doc, achievement, now)
          /\ lastOp' = Op("reward", c, TRUE, achievement.id, "")
          /\ expectedCash' = expectedCash + achievement.rewards.cash
          /\ rewarded' = Bump(rewarded, achievement.id, achievement.rewards)
  /\ UNCHANGED <<playerData, selectedJob, selectedLocos, now, uuid, credited>>
  /\ UNCHANGED pendingSweep

\* ------------------------------------------------------------ the shop
\* the quantities typed into the bulk purchase field
Quantities == {1, 2}

\* the catalog entries whose card is opened, in the shop and in the listing
\* of used locomotives
ShopItems == {1}

\* lastOp of a shop or inventory handler: id is the locomotive or the catalog
\* index the handler was called for, arg the quantity or the number typed
FleetOp(op, c, ok, id, why, arg) ==
  [op |-> op, c |-> c, ok |-> ok, id |-> id, why |-> why, arg |-> arg]

\* getStock(model): the stock of the model in the caller's snapshot
getStock(pd, model) ==
  LET hits == {i \in 1..Len(pd.dealershipStock) : pd.dealershipStock[i].model = model}
  IN IF hits = {} THEN 0
     ELSE pd.dealershipStock[CHOOSE i \in hits : \A k \in hits : i <= k].stock

\* the stock check of handlePurchase
InsufficientStock(currentStock, quantity) == currentStock < quantity

\* handlePurchase(catalogItem, quantity) of the shop page
handlePurchase(c) ==
  /\ Spend
  /\ \E k \in ShopItems, quantity \in Quantities :
       LET pd == playerData[c]
           catalogItem == LOCOMOTIVE_CATALOG[k]
           totalCost == catalogItem.purchaseCost * quantity
           currentStock == getStock(pd, catalogItem.model)
           nextId == pd.stats.nextLocoId
           newLocos == [i \in 1..quantity |->
              Locomotive(uuid + i, nextId + i - 1, catalogItem.model, catalogItem.horsepower,
                         catalogItem.resaleValue, catalogItem.purchaseCost)]
           updatedStock == [i \in 1..Len(pd.dealershipStock) |->
              IF pd.dealershipStock[i].model = catalogItem.model
              THEN [pd.dealershipStock[i] EXCEPT !.stock = Max(0, @ - quantity)]
              ELSE pd.dealershipStock[i]]
           reject(why) ==
              /\ lastOp' = FleetOp("purchase", c, FALSE, k, why, quantity)
              /\ UNCHANGED <<doc, playerData, uuid, expectedCash>>
       IN IF InsufficientStock(currentStock, quantity) THEN reject("Insufficient Stock")
          ELSE IF pd.stats.cash < totalCost THEN reject("Insufficient Funds")
          ELSE /\ doc' = updateDoc(doc, [locomotives |-> pd.locomotives \o newLocos,
                                         dealershipStock |-> updatedStock],
                                   [cash |-> pd.stats.cash - totalCost,
                                    nextLocoId |-> nextId + quantity])
               /\ playerData' = [playerData EXCEPT ![c] = doc']
               /\ uuid' = uuid + quantity
               /\ expectedCash' = expectedCash - totalCost
               /\ lastOp' = FleetOp("purchase", c, TRUE, k, "", quantity)
  /\ UNCHANGED <<selectedJob, selectedLocos, now, credited, rewarded>>
  /\ UNCHANGED pendingSweep

\* ------------------------------------------------- the used-locomotive page
PAINT_COSTS == [SINGLE_LOCO |-> 5000, PATCH_COST |-> 800]

FICTIONAL_RAILROAD_NAMES ==
  << "Burlington Northern", "Chesapeake Western", "Dakota Plains Railway",
     "Eastern Mountain Lines", "Great Lakes Transportation", "Midwest Freight Co.",
     "Northern Pacific Lines", "Pacific Coast Rail", "Rocky Mountain Rail",
     "Southern Freight Lines", "Texas & Western", "Union Central Railroad" >>

\* Math.round(max(0, min(100, 100 - mileage * 0.00001)))
calculateLocomotiveHealth(mileage) ==
  Max(0, Min(100, Floor(100 * 200000 - 2 * mileage + 100000, 200000)))

\* generateUsedLocomotive(catalogItem) for the draw r; the mileage of a draw
\* is a whole number of thousands and so is the catalog price, which keeps
\* purchaseCost * (1 - depreciation) within 32 bits
generateUsedLocomotive(catalogItem, r) ==
  LET mileage == Floor(r * 600000, RandomDen) + 400000
  IN [model |-> catalogItem.model, horsepower |-> catalogItem.horsepower,
      usedPrice |-> Floor((catalogItem.purchaseCost \div 1000) * (750000 - 350 * (mileage \div 1000)), 1000),
      mileage |-> mileage, health |-> calculateLocomotiveHealth(mileage),
      previousOwner |-> FICTIONAL_RAILROAD_NAMES[RandomIndex(r, Len(FICTIONAL_RAILROAD_NAMES)) + 1]]

\* usedLocomotives: the listing the page builds when it is opened, one used
\* locomotive per catalog entry, here with the draws 7 and 0
usedLocomotives ==
  [k \in 1..Len(LOCOMOTIVE_CATALOG) |->
     generateUsedLocomotive(LOCOMOTIVE_CATALOG[k], <<7, 0>>[k])]

PurchaseOptions == {"as-is", "repaint", "patch"}

\* handleUsedPurchase(usedItem) for a listing of the page and the purchase
\* option ticked in the dialog; the player owns no paint scheme, so none is
\* selected
handleUsedPurchase(c) ==
  /\ Spend
  /\ \E k \in ShopItems, purchaseOption \in PurchaseOptions :
       LET pd == playerData[c]
           usedItem == usedLocomotives[k]
           totalCost == usedItem.usedPrice
                        + (IF purchaseOption = "repaint" THEN PAINT_COSTS.SINGLE_LOCO
                           ELSE IF purchaseOption = "patch" THEN PAINT_COSTS.PATCH_COST ELSE 0)
           nextId == pd.stats.nextLocoId
           newLoco == [id |-> uuid + 1, unitNumber |-> UnitNumber(nextId),
                       model |-> usedItem.model, horsepower |-> usedItem.horsepower,
                       purchaseCost |-> usedItem.usedPrice,
                       resaleValue |-> Floor(usedItem.usedPrice * 7, 10),
                       scrapValue |-> Floor(usedItem.usedPrice * 3, 10),
                       mileage |-> usedItem.mileage, health |-> usedItem.health,
                       previousOwnerName |-> usedItem.previousOwner,
                       status |-> IF purchaseOption = "as-is" THEN "available" ELSE "in_paint_shop",
                       assignedJobId |-> Undefined]
           reject(why) ==
              /\ lastOp' = FleetOp("usedPurchase", c, FALSE, k, why, usedItem)
              /\ UNCHANGED <<doc, playerData, uuid, expectedCash>>
       IN IF purchaseOption = "repaint" THEN reject("Select Paint Scheme")
          ELSE IF pd.stats.cash < totalCost THEN reject("Insufficient Funds")
          ELSE /\ doc' = updateDoc(doc, [locomotives |-> Append(pd.locomotives, newLoco)],
                                   [cash |-> pd.stats.cash - totalCost,
                                    nextLocoId |-> nextId + 1])
               /\ playerData' = [playerData EXCEPT ![c] = doc']
               /\ uuid' = uuid + 1
               /\ expectedCash' = expectedCash - totalCost
               /\ lastOp' = FleetOp("usedPurchase", c, TRUE, uuid + 1, purchaseOption, usedItem)
  /\ UNCHANGED <<selectedJob, selectedLocos, now, credited, rewarded>>
  /\ UNCHANGED pendingSweep

\* ------------------------------------------------------- the inventory page
\* the cards opened on the inventory page: the newest unit of the fleet
OpenedCards(pd) == {i \in 1..Len(pd.locomotives) : i = Len(pd.locomotives)}

\* handleSell(loco) for the unit in the open card: the Sell button is disabled
\* unless that unit's status is available; the confirm() prompt is accepted
handleSell(c) ==
  /\ Spend
  /\ \E i \in OpenedCards(playerData[c]) :
       LET pd == playerData[c]
           loco == pd.locomotives[i]
           updatedLocos == SelectSeq(pd.locomotives, LAMBDA l : l.id # loco.id)
           newCash == pd.stats.cash + loco.resaleValue
       IN IF loco.status # "available"
          THEN /\ lastOp' = FleetOp("sell", c, FALSE, loco.id, "disabled", 0)
               /\ UNCHANGED <<doc, playerData, expectedCash>>
          ELSE /\ doc' = updateDoc(doc, [locomotives |-> updatedLocos], [cash |-> newCash])
               /\ playerData' = [playerData EXCEPT ![c] = doc']
               /\ expectedCash' = expectedCash + loco.resaleValue
               /\ lastOp' = FleetOp("sell", c, TRUE, loco.id, "", loco.resaleValue)
  /\ UNCHANGED <<selectedJob, selectedLocos, now, uuid, credited, rewarded>>
  /\ UNCHANGED pendingSweep

\* handleScrap(loco), behind the Scrap button with the same disabled attribute
handleScrap(c) ==
  /\ Spend
  /\ \E i \in OpenedCards(playerData[c]) :
       LET pd == playerData[c]
           loco == pd.locomotives[i]
           updatedLocos == SelectSeq(pd.locomotives, LAMBDA l : l.id # loco.id)
           newCash == pd.stats.cash + loco.scrapValue
       IN IF loco.status # "available"
          THEN /\ lastOp' = FleetOp("scrap", c, FALSE, loco.id, "disabled", 0)
               /\ UNCHANGED <<doc, playerData, expectedCash>>
          ELSE /\ doc' = updateDoc(doc, [locomotives |-> updatedLocos], [cash |-> newCash])
               /\ playerData' = [playerData EXCEPT ![c] = doc']
               /\ expectedCash' = expectedCash + loco.scrapValue
               /\ lastOp' = FleetOp("scrap", c, TRUE, loco.id, "", loco.scrapValue)
  /\ UNCHANGED <<selectedJob, selectedLocos, now, uuid, credited, rewarded>>
  /\ UNCHANGED pendingSweep

\* String.prototype.startsWith
startsWith(s, prefix) == Len(s) >= Len(prefix) /\ SubSeq(s, 1, Len(prefix)) = prefix

\* the numbers typed into the rename field: the number the next purchase
\* will issue, the starter unit's number, and a number without the # sign
NewUnitNumbers == {"#0003", "#0001", "0009"}

RenameFee == 10000

\* locomotives.some((l) => l.unitNumber === newUnitNumber && l.id !== selectedLoco.id)
DuplicateUnitNumber(locomotives, newUnitNumber, selectedLoco) ==
  \E i \in 1..Len(locomotives) :
     locomotives[i].unitNumber = newUnitNumber /\ locomotives[i].id # selectedLoco.id

\* handleRename for the unit in the open card and the number typed; the
\* Rename button is disabled while the field holds the unit's own number
handleRename(c) ==
  /\ Spend
  /\ \E i \in OpenedCards(playerData[c]), newUnitNumber \in NewUnitNumbers :
       LET pd == playerData[c]
           locomotives == pd.locomotives
           selectedLoco == locomotives[i]
           updatedLocos == [j \in 1..Len(locomotives) |->
              IF locomotives[j].id = selectedLoco.id
              THEN [locomotives[j] EXCEPT !.unitNumber = newUnitNumber]
              ELSE locomotives[j]]
           reject(why) ==
              /\ lastOp' = FleetOp("rename", c, FALSE, selectedLoco.id, why, newUnitNumber)
              /\ UNCHANGED <<doc, playerData, expectedCash>>
       IN /\ newUnitNumber # selectedLoco.unitNumber
          /\ IF ~startsWith(newUnitNumber, "#") THEN reject("Invalid Unit Number")
             ELSE IF DuplicateUnitNumber(locomotives, newUnitNumber, selectedLoco)
             THEN reject("Duplicate Unit Number")
             ELSE IF pd.stats.cash < RenameFee THEN reject("Insufficient Funds")
             ELSE /\ doc' = updateDoc(doc, [locomotives |-> updatedLocos],
                                      [cash |-> pd.stats.cash - RenameFee])
                  /\ playerData' = [playerData EXCEPT ![c] = doc']
                  /\ expectedCash' = expectedCash - RenameFee
                  /\ lastOp' = FleetOp("rename", c, TRUE, selectedLoco.id, "", newUnitNumber)
  /\ UNCHANGED <<selectedJob, selectedLocos, now, uuid, credited, rewarded>>
  /\ UNCHANGED pendingSweep

\* ------------------------------------------------------------ the paint shop
\* the paint scheme chosen in the apply dialog
selectedPaintScheme == 1

\* const PAINT_DOWNTIME = 10 * 60 * 1000
PAINT_DOWNTIME == 10 * 60 * 1000

PaintSingleCost == 5000

PaintAllCostPerLoco == 3500

\* the "Apply To" choices of the dialog that repaint units
PaintTargets == {"single", "all"}

\* { ...l, paintSchemeId, status: "in_paint_shop", paintCompleteAt }
InPaintShop(l, paintCompleteAt) ==
  [paintSchemeId |-> selectedPaintScheme, status |-> "in_paint_shop",
   paintCompleteAt |-> paintCompleteAt] @@ l

\* l.status === "in_paint_shop" && l.paintCompleteAt && l.paintCompleteAt <= now
PaintComplete(l, t) ==
  /\ l.status = "in_paint_shop"
  /\ "paintCompleteAt" \in DOMAIN l
  /\ l.paintCompleteAt # Undefined
  /\ l.paintCompleteAt <= t

\* const { paintCompleteAt, ...locoWithoutPaintTime } = l;
\* { ...locoWithoutPaintTime, status: "available" }
OutOfPaintShop(l) ==
  [k \in DOMAIN l \ {"paintCompleteAt"} |-> IF k = "status" THEN "available" ELSE l[k]]

\* handleApplyPaintScheme with a scheme selected, for the target chosen in the
\* dialog; "single" is reached through the Paint button of the open card,
\* which is disabled unless that unit's status is available
handleApplyPaintScheme(c) ==
  /\ Spend
  /\ \E i \in OpenedCards(playerData[c]), applyPaintTarget \in PaintTargets :
       LET pd == playerData[c]
           locomotives == pd.locomotives
           selectedLoco == locomotives[i]
           paintCompleteAt == now + PAINT_DOWNTIME
           numAvailable == Len(availableLocos(pd))
           cost == IF applyPaintTarget = "single" THEN PaintSingleCost
                   ELSE numAvailable * PaintAllCostPerLoco
           updatedLocos == [j \in 1..Len(locomotives) |->
              IF applyPaintTarget = "single"
              THEN IF locomotives[j].id = selectedLoco.id
                   THEN InPaintShop(locomotives[j], paintCompleteAt) ELSE locomotives[j]
              ELSE IF locomotives[j].status = "available"
                   THEN InPaintShop(locomotives[j], paintCompleteAt) ELSE locomotives[j]]
           reject(why) ==
              /\ lastOp' = FleetOp("paint", c, FALSE, selectedLoco.id, why, applyPaintTarget)
              /\ UNCHANGED <<doc, playerData, expectedCash>>
       IN IF applyPaintTarget = "single" /\ selectedLoco.status # "available"
          THEN reject("disabled")
          ELSE IF pd.stats.cash < cost THEN reject("Insufficient Funds")
          ELSE /\ doc' = updateDoc(doc, [locomotives |-> updatedLocos],
                                   [cash |-> pd.stats.cash - cost])
               /\ playerData' = [playerData EXCEPT ![c] = doc']
               /\ expectedCash' = expectedCash - cost
               /\ lastOp' = FleetOp("paint", c, TRUE, selectedLoco.id, "", applyPaintTarget)
  /\ UNCHANGED <<selectedJob, selectedLocos, now, uuid, credited, rewarded>>
  /\ UNCHANGED pendingSweep

\* checkPaintJobs, run every 30 seconds and whenever the fleet of the
\* snapshot changes, up to the return of the second refreshPlayerData(): it
\* goes on when the snapshot shows a finished paint job, takes Date.now() and
\* rereads the document (getDoc), which also becomes the client's snapshot
checkPaintJobs(c) ==
  /\ pendingSweep[c] = NoSweep
  /\ LET completedPaintJobs ==
           SelectSeq(playerData[c].locomotives, LAMBDA l : PaintComplete(l, now))
     IN Len(completedPaintJobs) > 0
  /\ playerData' = [playerData EXCEPT ![c] = doc]
  /\ pendingSweep' = [pendingSweep EXCEPT ![c] = [id |-> 1, now |-> now, freshPlayerData |-> doc]]
  /\ UNCHANGED <<doc, selectedJob, selectedLocos, now, uuid, nops, lastOp,
                 expectedCash, credited, rewarded>>

\* the rest of checkPaintJobs: safeUpdateDoc(playerRef, { locomotives:
\* updatedLocos }) with the fleet of the reading, and the refresh after it
checkPaintJobsWrite(c) ==
  /\ Spend
  /\ pendingSweep[c] # NoSweep
  /\ LET freshPlayerData == pendingSweep[c].freshPlayerData
         t == pendingSweep[c].now
         updatedLocos == [j \in 1..Len(freshPlayerData.locomotives) |->
            IF PaintComplete(freshPlayerData.locomotives[j], t)
            THEN OutOfPaintShop(freshPlayerData.locomotives[j])
            ELSE freshPlayerData.locomotives[j]]
     IN /\ doc' = updateDoc(doc, [locomotives |-> updatedLocos], NoFields)
        /\ playerData' = [playerData EXCEPT ![c] = doc']
        /\ lastOp' = FleetOp("paintSweep", c, TRUE, 0, "", t)
  /\ pendingSweep' = [pendingSweep EXCEPT ![c] = NoSweep]
  /\ UNCHANGED <<selectedJob, selectedLocos, now, uuid, expectedCash, credited, rewarded>>

\* ------------------------------------------------------------ the system
Next ==
  \/ Tick
  \/ \E c \in Clients : Sync(c)
  \/ \E c \in Clients : initializeJobsAndMarket(c)
  \/ \E c \in Clients : checkAndRefreshJobs(c)
  \/ \E c \in Clients : SelectJob(c)
  \/ \E c \in Clients : CloseDialog(c)
  \/ \E c \in Clients : ToggleLoco(c)
  \/ \E c \in Clients : handleAssignRandom(c)
  \/ \E c \in Clients : handleAssignJob(c)
  \/ \E c \in Clients : handleClaimJob(c)
  \/ \E c \in Clients : handleClaimReward(c)

Spec == Init /\ [][Next]_vars

\* --------------------------------------------- the shop and the inventory
\* the documents a run of the shop and inventory pages starts from, each with
\* the snapshot the second client holds: a player with 1,705,000 in cash and
\* no job board yet; and the same player with a generated board and the first
\* local freight job on the GP9, which the second client has not yet seen
FleetDocs ==
  LET f0 == [InitDoc(3590, firstJobProgress) EXCEPT !.stats.cash = 1705000]
      m0 == WithMarket(f0, 7, InitNow)
      m1 == WithAssignment(m0, 1, 2, InitNow)
  IN {<<f0, f0>>, <<m1, m0>>}

FleetInit ==
  /\ \E p \in FleetDocs :
       /\ doc = p[1]
       /\ playerData = [c \in Clients |-> IF c = 1 THEN p[1] ELSE p[2]]
       /\ uuid = IF p[1].jobs = <<>> THEN 4 ELSE 4 + UuidsPerMarket
  /\ selectedJob = [c \in Clients |-> NoJob]
  /\ selectedLocos = [c \in Clients |-> <<>>]
  /\ now = InitNow
  /\ nops = 0
  /\ lastOp = Op("none", 0, TRUE, 0, "")
  /\ expectedCash = doc.stats.cash
  /\ credited = <<>>
  /\ rewarded = <<>>
  /\ pendingSweep = [c \in Clients |-> NoSweep]

FleetNext ==
  \/ \E c \in Clients : Sync(c)
  \/ \E c \in Clients : handleApplyPaintScheme(c)
  \/ \E c \in Clients : handlePurchase(c)
  \/ \E c \in Clients : handleUsedPurchase(c)
  \/ \E c \in Clients : handleRename(c)
  \/ \E c \in Clients : handleSell(c)
  \/ \E c \in Clients : handleScrap(c)

FleetSpec == FleetInit /\ [][FleetNext]_vars

\* the inventory page with the clock running: painting, the paint sweep, and
\* the sale and renumbering of the unit in the open card
PaintNext ==
  \/ Tick
  \/ \E c \in Clients : Sync(c)
  \/ \E c \in Clients : handleApplyPaintScheme(c)
  \/ \E c \in Clients : checkPaintJobs(c)
  \/ \E c \in Clients : checkPaintJobsWrite(c)
  \/ \E c \in Clients : handleSell(c)
  \/ \E c \in Clients : handleRename(c)

PaintSpec == FleetInit /\ [][PaintNext]_vars

\* ------------------------------------------------------ a commit that fails
\* a write that wrote the stats and threw before the other fields
CommitRejectedHalfway(d) == [d EXCEPT !.stats.cash = 0]

\* the stored document after an updateDoc, safeUpdateDoc or runTransaction
\* that rejects: a write is applied as a whole or not at all
CommitRejected(d) == d

\* a handler whose write rejects: reached tells that the handler gets as far
\* as its write; the catch block shows the error toast, and the handler's
\* refresh, its closing of the dialog and its success toast are skipped
CatchBlock(c, op, reached) ==
  /\ reached
  /\ Spend
  /\ doc' = CommitRejected(doc)
  /\ lastOp' = Op(op, c, FALSE, 0, "commit failed")
  /\ UNCHANGED <<playerData, selectedJob, selectedLocos, now, uuid,
                 expectedCash, credited, rewarded, pendingSweep>>

\* handleAssignJob gets past its checks
AssignReachesCommit(c) ==
  LET pd == playerData[c]
      job == selectedJob[c]
      sel == selectedLocos[c]
  IN /\ ~(job = NoJob \/ sel = <<>>)
     /\ ~AssignLocked(pd, job)
     /\ ~AssignUnderpowered(pd, job, sel)

handleAssignJobCatch(c) == CatchBlock(c, "assign", AssignReachesCommit(c))

\* a card of the Current Jobs tab renders its Claim Rewards button
ClaimReachesCommit(c) ==
  /\ ~DialogOpen(c)
  /\ \E i \in 1..Len(currentJobs(playerData[c])) :
       isCompleted(currentJobs(playerData[c])[i], now)

handleClaimJobCatch(c) == CatchBlock(c, "claim", ClaimReachesCommit(c))

\* an achievement card renders its Claim Reward button
RewardReachesCommit(c) ==
  /\ ~DialogOpen(c)
  /\ \E i \in 1..Len(playerData[c].achievements) :
       ClaimButtonShown(playerData[c].achievements[i])

handleClaimRewardCatch(c) == CatchBlock(c, "reward", RewardReachesCommit(c))

\* handlePurchase gets past its stock and funds checks
PurchaseReachesCommit(c) ==
  \E k \in ShopItems, quantity \in Quantities :
     /\ ~InsufficientStock(getStock(playerData[c], LOCOMOTIVE_CATALOG[k].model), quantity)
     /\ playerData[c].stats.cash >= LOCOMOTIVE_CATALOG[k].purchaseCost * quantity

handlePurchaseCatch(c) == CatchBlock(c, "purchase", PurchaseReachesCommit(c))

\* the Sell and Scrap buttons of the open card are enabled
SellReachesCommit(c) ==
  \E i \in OpenedCards(playerData[c]) : playerData[c].locomotives[i].status = "available"

handleSellCatch(c) == CatchBlock(c, "sell", SellReachesCommit(c))

handleScrapCatch(c) == CatchBlock(c, "scrap", SellReachesCommit(c))

\* handleRename gets past its checks
RenameReachesCommit(c) ==
  \E i \in OpenedCards(playerData[c]), newUnitNumber \in NewUnitNumbers :
     /\ newUnitNumber # playerData[c].locomotives[i].unitNumber
     /\ startsWith(newUnitNumber, "#")
     /\ ~DuplicateUnitNumber(playerData[c].locomotives, newUnitNumber,
                             playerData[c].locomotives[i])
     /\ playerData[c].stats.cash >= RenameFee

handleRenameCatch(c) == CatchBlock(c, "rename", RenameReachesCommit(c))

\* the pages with writes that may reject
CommitNext ==
  \/ Tick
  \/ \E c \in Clients : Sync(c)
  \/ \E c \in Clients : SelectJob(c)
  \/ \E c \in Clients : handleAssignRandom(c)
  \/ \E c \in Clients : handleAssignJob(c)
  \/ \E c \in Clients : handleClaimJob(c)
  \/ \E c \in Clients : handleClaimReward(c)
  \/ \E c \in Clients : handleSell(c)
  \/ \E c \in Clients : handleAssignJobCatch(c)
  \/ \E c \in Clients : handleClaimJobCatch(c)
  \/ \E c \in Clients : handleClaimRewardCatch(c)
  \/ \E c \in Clients : handlePurchaseCatch(c)
  \/ \E c \in Clients : handleSellCatch(c)
  \/ \E c \in Clients : handleScrapCatch(c)
  \/ \E c \in Clients : handleRenameCatch(c)

CommitSpec == FleetInit /\ [][CommitNext]_vars

\* ------------------------------------------- the functions on their own
\* the xp values calculateLevel is asked about: around every threshold of
\* the table and beyond its last entry
XpInputs ==
  {x \in {XP_PER_LEVEL[i] + d : i \in 1..Len(XP_PER_LEVEL), d \in {-1, 0, 1}} : x >= 0}
    \cup {16199, 16200, 18200, 26999, 27000, 74199, 74200}

\* the draws of Math.random()
AllDraws == 0..(RandomDen - 1)

\* the largest train generateJobs asks a manifest for: 15 + floor(random * 136)
MaxCars == 150

\* the freight types and car counts generateJobs calls generateManifest with
ManifestInputs ==
  {<<"Mixed Manifest", n>> : n \in 4..MaxCars}
    \cup {<<FREIGHT_TYPES[k], n>> : k \in 1..Len(FREIGHT_TYPES), n \in 15..MaxCars}

\* local time in ms, counted from a Sunday 00:00
HourMs == 60 * MsPerMinute

DayMs == 24 * HourMs

\* Date.getDay(): 0 = Sunday .. 6 = Saturday
getDay(t) == (t \div DayMs) % 7

\* getNextFriday() called at local time t
getNextFriday(t) ==
  LET dayOfWeek == getDay(t)
      d == (5 - dayOfWeek + 7) % 7
      daysUntilFriday == IF d = 0 THEN 7 ELSE d
  IN ((t \div DayMs) + daysUntilFriday) * DayMs + 12 * HourMs

\* the times of a week getNextFriday is called at: around midnight and noon
\* of every day
WeekTimes ==
  {d * DayMs + h * HourMs + e : d \in 0..6, h \in {0, 11, 12, 13, 23}, e \in {0, 1}}

\* a call that has not run yet, with its inputs
Pending(fn, arg) ==
  [op |-> "pending", c |-> 0, ok |-> TRUE, id |-> 0, why |-> "", fn |-> fn, arg |-> arg]

\* the outcome of a call of one of the schema's or the generator's functions
Call(fn, arg, result, prevArg, prevResult) ==
  [op |-> fn, c |-> 0, ok |-> TRUE, id |-> 0, why |-> "",
   arg |-> arg, result |-> result, prevArg |-> prevArg, prevResult |-> prevResult]

\* the calls and their inputs
SchemaInputs ==
  {Pending("calculateLevel", <<xp1, xp2>>) : xp1 \in XpInputs, xp2 \in XpInputs}
    \cup {Pending("generateJobs", <<tier, r>>) : tier \in {1, 2, 3}, r \in AllDraws}
    \cup {Pending("generateManifest", <<in[1], in[2], r>>) : in \in ManifestInputs, r \in AllDraws}
    \cup {Pending("getNextFriday", <<t>>) : t \in WeekTimes}

SchemaInit ==
  /\ doc = InitDoc(3590, firstJobProgress)
  /\ playerData = [c \in Clients |-> doc]
  /\ uuid = 4
  /\ selectedJob = [c \in Clients |-> NoJob]
  /\ selectedLocos = [c \in Clients |-> <<>>]
  /\ now = InitNow
  /\ nops = 0
  /\ lastOp \in SchemaInputs
  /\ expectedCash = doc.stats.cash
  /\ credited = <<>>
  /\ rewarded = <<>>
  /\ pendingSweep = [c \in Clients |-> NoSweep]

\* calculateLevel(xp) for two values of xp, one call after the other
CallCalculateLevel ==
  /\ lastOp.op = "pending"
  /\ lastOp.fn = "calculateLevel"
  /\ lastOp' = Call("calculateLevel", lastOp.arg[2], calculateLevel(lastOp.arg[2]),
                    lastOp.arg[1], calculateLevel(lastOp.arg[1]))
  /\ UNCHANGED <<doc, playerData, selectedJob, selectedLocos, now, uuid, nops,
                 expectedCash, credited, rewarded>>
  /\ UNCHANGED pendingSweep

\* generateJobs(tier, city, level) with the draw r
CallGenerateJobs ==
  /\ lastOp.op = "pending"
  /\ lastOp.fn = "generateJobs"
  /\ lastOp' = Call("generateJobs", lastOp.arg,
                    generateJobs(lastOp.arg[1], lastOp.arg[2], uuid, now), 0, 0)
  /\ UNCHANGED <<doc, playerData, selectedJob, selectedLocos, now, uuid, nops,
                 expectedCash, credited, rewarded>>
  /\ UNCHANGED pendingSweep

\* generateManifest(freightType, totalCars) with the draw r
CallGenerateManifest ==
  /\ lastOp.op = "pending"
  /\ lastOp.fn = "generateManifest"
  /\ lastOp' = Call("generateManifest", lastOp.arg,
                    generateManifest(lastOp.arg[1], lastOp.arg[2], lastOp.arg[3]), 0, 0)
  /\ UNCHANGED <<doc, playerData, selectedJob, selectedLocos, now, uuid, nops,
                 expectedCash, credited, rewarded>>
  /\ UNCHANGED pendingSweep

\* getNextFriday() at the local time of the call
CallGetNextFriday ==
  /\ lastOp.op = "pending"
  /\ lastOp.fn = "getNextFriday"
  /\ lastOp' = Call("getNextFriday", lastOp.arg, getNextFriday(lastOp.arg[1]), 0, 0)
  /\ UNCHANGED <<doc, playerData, selectedJob, selectedLocos, now, uuid, nops,
                 expectedCash, credited, rewarded>>
  /\ UNCHANGED pendingSweep

SchemaNext ==
  \/ CallGetNextFriday
  \/ CallCalculateLevel
  \/ CallGenerateJobs
  \/ CallGenerateManifest

SchemaSpec == SchemaInit /\ [][SchemaNext]_vars

TypeOK == nops \in 0..MaxOps

\* ------------------------------------------------------------- properties
\* a step of the named handler
Did(op) == nops' # nops /\ lastOp'.op = op

InProgress(d) == WithStatus(d.jobs, "in_progress")

\* C1: an automatic market refresh leaves in the stored job set exactly the
\* in_progress jobs it held before, every field unchanged, and beside them
\* only available jobs generated by this refresh.
RefreshPreservesInProgress ==
  [][Did("refresh") =>
       /\ InProgress(doc') = InProgress(doc)
       /\ \A i \in 1..Len(doc'.jobs) :
            doc'.jobs[i].status = "in_progress" \/ doc'.jobs[i].generatedAt = now]_vars

\* C2: over any interleaving of claim attempts the rewards of an achievement
\* are credited once: the stored points are the initial points plus the
\* points of the achievements marked completed.
AchievementCreditedOnce ==
  doc.stats.points =
    InitDoc(3590, firstJobProgress).stats.points +
    SumSeq([i \in 1..Len(doc.achievements) |->
              IF doc.achievements[i].isCompleted
              THEN doc.achievements[i].rewards.points ELSE 0])

\* C3: after every operation that changes stats.xp the stored level is
\* calculateLevel of the stored xp.
LevelFollowsXp ==
  [][doc'.stats.xp # doc.stats.xp =>
       doc'.stats.level = calculateLevel(doc'.stats.xp)]_vars

\* C4: no committed effect is lost: the stored cash is the initial cash plus
\* the cash deltas of all operations that reported success.
NoLostCashUpdate == doc.stats.cash = expectedCash

\* C5: an assign succeeds only if, in the stored document at the moment of
\* the commit, the job is available and every selected locomotive is
\* available.
AssignChecksStoredDocument ==
  [][(Did("assign") /\ lastOp'.ok) =>
       LET job == FindById(doc.jobs, lastOp'.id)
           sel == selectedLocos[lastOp'.c]
       IN /\ job # NoJob
          /\ job.status = "available"
          /\ \A i \in 1..Len(sel) :
               LET loco == FindById(doc.locomotives, sel[i])
               IN loco # NoJob /\ loco.status = "available"]_vars

RECURSIVE SumOver(_, _)
\* the sum of f[k] over the keys k in S
SumOver(f, S) ==
  IF S = {} THEN 0
  ELSE LET k == CHOOSE x \in S : TRUE
       IN f[k] + SumOver(f, S \ {k})

\* C7: however often one job is claimed, its payout and its xpReward are
\* credited at most once in total: the stored cash and xp never exceed the
\* initial values plus the achievement rewards paid plus one payout and one
\* xpReward for each job that has been claimed.
JobCreditedAtMostOnce ==
  /\ doc.stats.cash <=
       InitDoc(3590, firstJobProgress).stats.cash
       + SumOver([k \in DOMAIN rewarded |-> rewarded[k].n * rewarded[k].cash], DOMAIN rewarded)
       + SumOver([k \in DOMAIN credited |-> credited[k].cash], DOMAIN credited)
  /\ doc.stats.xp <=
       InitDoc(3590, firstJobProgress).stats.xp
       + SumOver([k \in DOMAIN rewarded |-> rewarded[k].n * rewarded[k].xp], DOMAIN rewarded)
       + SumOver([k \in DOMAIN credited |-> credited[k].xp], DOMAIN credited)

\* C8: an assign of locomotives whose summed horsepower is below the job's
\* hpRequired fails and leaves every job and every locomotive as it was.
UnderpoweredAssignRejected ==
  [][(Did("assign") /\
      totalSelectedHP(playerData[lastOp'.c], selectedLocos[lastOp'.c])
        < selectedJob[lastOp'.c].hpRequired) =>
       /\ ~lastOp'.ok
       /\ doc' = doc
       /\ playerData' = playerData]_vars

UnderpoweredAssignAttempted ==
  /\ lastOp.op = "assign"
  /\ ~lastOp.ok
  /\ lastOp.why = "Insufficient Horsepower"
  /\ selectedLocos[lastOp.c] # <<>>
  /\ totalSelectedHP(playerData[lastOp.c], selectedLocos[lastOp.c])
       < selectedJob[lastOp.c].hpRequired

\* C9: an assign or an auto-assign selection for a tier-2 job below level 10
\* or a tier-3 job below level 50 is rejected and leaves jobs, locomotives
\* and the selection unchanged; a tier-1 job is never rejected for level.
LockedTierRejected ==
  [][(Did("assign") \/ Did("assignRandom")) =>
       LET job == selectedJob[lastOp'.c]
           level == playerData[lastOp'.c].stats.level
       IN /\ ((job.tier = 2 /\ level < 10) \/ (job.tier = 3 /\ level < 50)) =>
               /\ ~lastOp'.ok
               /\ doc' = doc
               /\ playerData' = playerData
               /\ selectedLocos' = selectedLocos
          /\ job.tier = 1 => lastOp'.why # "Job Locked"]_vars

LockedAssignAttempted ==
  /\ lastOp.op = "assign"
  /\ ~lastOp.ok
  /\ lastOp.why = "Job Locked"
  /\ selectedJob[lastOp.c].tier = 2
  /\ playerData[lastOp.c].stats.level < 10

JobFieldsOK(job) ==
  IF job.status = "in_progress"
  THEN /\ job.assignedLocos # <<>>
       /\ job.startedAt # Undefined
       /\ job.completesAt # Undefined
       /\ job.completesAt = job.startedAt + job.timeMinutes * 60000
       /\ job.completesAt > job.startedAt
  ELSE job.status = "available" =>
         /\ job.assignedLocos = <<>>
         /\ job.startedAt = Undefined
         /\ job.completesAt = Undefined

\* C10: in every reachable state, stored or held by a client, an in_progress
\* job has a non-empty assignedLocos, a startedAt and a completesAt equal to
\* startedAt + timeMinutes*60000 and later than startedAt, and an available
\* job has no assignedLocos, no startedAt and no completesAt.
JobStatusFields ==
  /\ \A i \in 1..Len(doc.jobs) : JobFieldsOK(doc.jobs[i])
  /\ \A c \in Clients : \A i \in 1..Len(playerData[c].jobs) :
       JobFieldsOK(playerData[c].jobs[i])

AssignCommitted ==
  /\ lastOp.op = "assign"
  /\ lastOp.ok
  /\ FindById(doc.jobs, lastOp.id) # NoJob
  /\ FindById(doc.jobs, lastOp.id).status = "in_progress"
  /\ FindById(doc.jobs, lastOp.id).startedAt = now

\* C11: a successful job claim adds exactly the job's payout to the stored
\* cash and its xpReward to the stored xp, frees every locomotive assigned to
\* that job, removes that job from the stored job list and leaves every other
\* job and every other locomotive as stored.
ClaimSettlesExactly ==
  [][(Did("claim") /\ lastOp'.ok) =>
       LET id == lastOp'.id
           job == FindById(doc.jobs, id)
       IN /\ job # NoJob
          /\ doc'.stats.cash = doc.stats.cash + job.payout
          /\ doc'.stats.xp = doc.stats.xp + job.xpReward
          /\ doc'.jobs = SelectSeq(doc.jobs, LAMBDA j : j.id # id)
          /\ doc'.locomotives = [i \in 1..Len(doc.locomotives) |->
               IF doc.locomotives[i].assignedJobId = id
               THEN [doc.locomotives[i] EXCEPT !.assignedJobId = Undefined, !.status = "available"]
               ELSE doc.locomotives[i]]]_vars

\* C12: every successful job claim increases the stored totalJobsCompleted
\* by exactly 1.
ClaimCountsJob ==
  [][(Did("claim") /\ lastOp'.ok) =>
       doc'.stats.totalJobsCompleted = doc.stats.totalJobsCompleted + 1]_vars

\* C13: a successful job claim increments, in the same write, the
\* currentProgress of every achievement that counts completed jobs, and no
\* step ever lowers the currentProgress of an achievement.
ClaimAdvancesProgress ==
  [][/\ Len(doc'.achievements) = Len(doc.achievements)
     /\ \A i \in 1..Len(doc.achievements) :
          /\ doc'.achievements[i].currentProgress >= doc.achievements[i].currentProgress
          /\ (Did("claim") /\ lastOp'.ok
              /\ doc.achievements[i].requirement = "total_jobs_completed") =>
               doc'.achievements[i].currentProgress = doc.achievements[i].currentProgress + 1]_vars

\* C14: an achievement claim succeeds only if the stored achievement, at the
\* moment of the commit, has currentProgress >= targetValue and is not yet
\* completed.
RewardChecksStoredDocument ==
  [][(Did("reward") /\ lastOp'.ok) =>
       LET a == FindById(doc.achievements, lastOp'.id)
       IN /\ a # NoJob
          /\ a.currentProgress >= a.targetValue
          /\ ~a.isCompleted]_vars

\* C15: after a new-locomotive purchase the stored stock of the model is >= 0
\* and is the stock stored before minus the quantity bought, and a purchase
\* of more than the stored stock is rejected and changes nothing.
StockFollowsPurchases ==
  [][Did("purchase") =>
       LET model == LOCOMOTIVE_CATALOG[lastOp'.id].model
           quantity == lastOp'.arg
       IN /\ lastOp'.ok =>
               /\ getStock(doc', model) >= 0
               /\ getStock(doc', model) = getStock(doc, model) - quantity
          /\ quantity > getStock(doc, model) =>
               /\ ~lastOp'.ok
               /\ doc' = doc]_vars

\* C16: a successful purchase advances the stored nextLocoId, by the quantity
\* for a new purchase and by 1 for a used one, and numbers its locomotives
\* from the stored nextLocoId on, so that no value numbers two locomotives.
NextLocoIdNeverReused ==
  [][((Did("purchase") \/ Did("usedPurchase")) /\ lastOp'.ok) =>
       LET quantity == IF lastOp'.op = "purchase" THEN lastOp'.arg ELSE 1
           n == Len(doc'.locomotives)
       IN /\ doc'.stats.nextLocoId = doc.stats.nextLocoId + quantity
          /\ n >= quantity
          /\ \A i \in 1..quantity :
               doc'.locomotives[n - quantity + i].unitNumber
                 = UnitNumber(doc.stats.nextLocoId + i - 1)]_vars

\* C17: in every reachable state the unit numbers of the stored fleet are
\* pairwise distinct.
UnitNumbersDistinct ==
  \A i, j \in 1..Len(doc.locomotives) :
     i # j => doc.locomotives[i].unitNumber # doc.locomotives[j].unitNumber

\* C18: a rename to a number another locomotive of the stored fleet carries,
\* to a number without the # sign, or with stored cash below the fee fails
\* and changes nothing; a successful rename debits exactly the fee and
\* changes only that locomotive's unitNumber.
RenameChecked ==
  [][Did("rename") =>
       LET id == lastOp'.id
           newUnitNumber == lastOp'.arg
       IN /\ (\/ \E i \in 1..Len(doc.locomotives) :
                    doc.locomotives[i].unitNumber = newUnitNumber /\ doc.locomotives[i].id # id
              \/ ~startsWith(newUnitNumber, "#")
              \/ doc.stats.cash < RenameFee) =>
               /\ ~lastOp'.ok
               /\ doc' = doc
          /\ lastOp'.ok =>
               /\ doc'.stats.cash = doc.stats.cash - RenameFee
               /\ doc'.locomotives = [i \in 1..Len(doc.locomotives) |->
                    IF doc.locomotives[i].id = id
                    THEN [doc.locomotives[i] EXCEPT !.unitNumber = newUnitNumber]
                    ELSE doc.locomotives[i]]]_vars

\* the locomotives of a fleet that were bought from this listing
BoughtFrom(locomotives, usedItem) ==
  SelectSeq(locomotives, LAMBDA l : /\ l.model = usedItem.model
                                    /\ l.mileage = usedItem.mileage
                                    /\ l.previousOwnerName = usedItem.previousOwner)

\* C19: a successful used purchase takes a listing from which no locomotive
\* of the stored fleet was bought before (a listing is sold once), and the
\* locomotive it appends carries the listing's mileage, health and previous
\* owner.
UsedListingBoughtOnce ==
  [][(Did("usedPurchase") /\ lastOp'.ok) =>
       LET usedItem == lastOp'.arg
           n == Len(doc'.locomotives)
       IN /\ BoughtFrom(doc.locomotives, usedItem) = <<>>
          /\ n >= 1
          /\ doc'.locomotives[n].mileage = usedItem.mileage
          /\ doc'.locomotives[n].health = usedItem.health
          /\ doc'.locomotives[n].previousOwnerName = usedItem.previousOwner]_vars

\* C20: a sell or a scrap succeeds only for a locomotive that is stored as
\* available; it then removes exactly that locomotive from the stored fleet
\* and adds its resaleValue (sell) or scrapValue (scrap) to the stored cash;
\* for a locomotive in another status nothing changes.
DisposeOnlyAvailable ==
  [][(Did("sell") \/ Did("scrap")) =>
       LET loco == FindById(doc.locomotives, lastOp'.id)
       IN IF lastOp'.ok
          THEN /\ loco # NoJob
               /\ loco.status = "available"
               /\ doc'.locomotives = SelectSeq(doc.locomotives, LAMBDA l : l.id # lastOp'.id)
               /\ doc'.stats.cash = doc.stats.cash
                    + (IF lastOp'.op = "sell" THEN loco.resaleValue ELSE loco.scrapValue)
          ELSE doc' = doc]_vars

\* C21: in the stored document a job that is in_progress never becomes
\* available again, and a job that a claim has removed never is in the job
\* list again.
JobStatusForward ==
  [][/\ \A i \in 1..Len(doc.jobs) :
          doc.jobs[i].status = "in_progress" =>
            LET after == FindById(doc'.jobs, doc.jobs[i].id)
            IN after # NoJob => after.status # "available"
     /\ \A id \in DOMAIN credited : FindById(doc'.jobs, id) = NoJob]_vars

RefreshOncePerMinute ==
  [][(/\ Did("refresh")
      /\ lastOp.op = "refresh"
      /\ doc.loanerTrainsRefreshAt = now + 30 * MsPerMinute) =>
       /\ doc'.jobs = doc.jobs
       /\ doc'.loanerTrains = doc.loanerTrains]_vars

\* the jobs of a market generation that drew its ids from base + 1 on
GeneratedJobs(jobs, base) ==
  SelectSeq(jobs, LAMBDA j : j.id > base /\ j.id <= base + JobsPerMarket)

CountJobs(jobs, tier, jobType) ==
  Len(SelectSeq(jobs, LAMBDA j : j.tier = tier /\ j.jobType = jobType))

\* C24: every market generation, the first one on an empty job list and each
\* refresh, stores 4 local freight and 2 yard switching jobs of tier 1, 8
\* mainline freight jobs of tier 2 and 3 special freight jobs of tier 3, all
\* available, whatever the level of the player.
MarketHasAllTiers ==
  [][(\/ Did("refresh")
      \/ Did("initialize") /\ Len(playerData[lastOp'.c].jobs) = 0) =>
       LET fresh == GeneratedJobs(doc'.jobs, uuid)
       IN /\ Len(fresh) = 17
          /\ CountJobs(fresh, 1, "local_freight") = 4
          /\ CountJobs(fresh, 1, "yard_switching") = 2
          /\ CountJobs(fresh, 2, "mainline_freight") = 8
          /\ CountJobs(fresh, 3, "special_freight") = 3
          /\ \A i \in 1..Len(fresh) : fresh[i].status = "available"]_vars

\* a market was generated for a player below level 10
MarketGenerated ==
  /\ lastOp.op \in {"initialize", "refresh"}
  /\ doc.stats.level < 10
  /\ CountJobs(availableJobs(doc), 3, "special_freight") = 3

\* the manifest is not empty, every entry counts at least one car, and the
\* counts add up to carCount
ManifestOK(manifest, carCount) ==
  /\ manifest # <<>>
  /\ \A k \in 1..Len(manifest) : manifest[k].count >= 1
  /\ SumSeq([k \in 1..Len(manifest) |-> manifest[k].count]) = carCount

\* C25: for every job generateJobs produces, of every tier and freight type,
\* the manifest is non-empty, every entry has count >= 1 and the counts sum
\* to the job's carCount; the same for every manifest generateManifest
\* returns for a freight type and car count generateJobs asks for.
ManifestConserved ==
  /\ lastOp.op = "generateJobs" =>
       \A i \in 1..Len(lastOp.result) :
          ManifestOK(lastOp.result[i].manifest, lastOp.result[i].carCount)
  /\ lastOp.op = "generateManifest" => ManifestOK(lastOp.result, lastOp.arg[2])

\* an intermodal train was split into containers and trailers
IntermodalManifestGenerated ==
  /\ lastOp.op = "generateManifest"
  /\ lastOp.arg[1] = "Intermodal"
  /\ Len(lastOp.result) = 2
  /\ lastOp.result[2].content = "Trailers"

\* C26: for every generated local freight job payout = floor(distance *
\* carCount * 25) and xpReward = floor(distance * 5) for the distance and
\* carCount stored on the job.
LocalPayoutFromStoredDistance ==
  lastOp.op = "generateJobs" =>
    \A i \in 1..Len(lastOp.result) :
       LET job == lastOp.result[i]
       IN job.jobType = "local_freight" =>
            /\ job.payout = job.distance * job.carCount * 25
            /\ job.xpReward = job.distance * 5

\* C27: calculateLevel is monotonic, for any two calls the one with less xp
\* has the lower or the same level, and at the threshold of a level L of the
\* table it returns at least L.
LevelMonotonic ==
  lastOp.op = "calculateLevel" =>
    /\ lastOp.prevArg <= lastOp.arg => lastOp.prevResult <= lastOp.result
    /\ lastOp.arg <= lastOp.prevArg => lastOp.result <= lastOp.prevResult
    /\ \A L \in 1..Len(XP_PER_LEVEL) : lastOp.arg = XP_PER_LEVEL[L] => lastOp.result >= L

\* two calls on the two sides of the level-10 threshold
LevelTenCrossed ==
  /\ lastOp.op = "calculateLevel"
  /\ lastOp.prevArg = XP_PER_LEVEL[10] - 1
  /\ lastOp.arg = XP_PER_LEVEL[10]
  /\ lastOp.prevResult = 9
  /\ lastOp.result = 10

\* the xp at which level i begins: the table, and past it the linear curve
\* getXpForNextLevel gives
threshold(i) == getXpForNextLevel(i - 1)

\* C28: calculateLevel(xp) is the largest level i >= 1 with xp >= threshold(i),
\* also past the last entry of the table, where the thresholds are those of
\* getXpForNextLevel.
LevelIsLargestReached ==
  lastOp.op = "calculateLevel" =>
    /\ lastOp.result >= 1
    /\ lastOp.arg >= threshold(lastOp.result)
    /\ lastOp.arg < threshold(lastOp.result + 1)

\* C30: xp 26999 is level 9 and xp 27000 is level 10.
LevelTenAt27000 ==
  lastOp.op = "calculateLevel" =>
    /\ lastOp.arg = 26999 => lastOp.result = 9
    /\ lastOp.arg = 27000 => lastOp.result = 10

\* C29: when a successful job claim raises the level of the claiming client
\* from old to new, the level-up notification carries new, and its unlock
\* list holds "Mainline Freight Jobs" if old < 10 <= new and "Special Freight
\* Jobs" if old < 50 <= new.
LevelUpNamesUnlocks ==
  [][(Did("claim") /\ lastOp'.ok) =>
       LET old == playerData[lastOp'.c].stats.level
           new == playerData'[lastOp'.c].stats.level
           info == lastOp'.levelUpInfo
       IN new > old =>
            /\ info.level = new
            /\ (old < 10 /\ 10 <= new) => Includes(info.unlocks, "Mainline Freight Jobs")
            /\ (old < 50 /\ 50 <= new) => Includes(info.unlocks, "Special Freight Jobs")]_vars

\* C31: getNextFriday returns the earliest Friday 12:00:00 local time that is
\* strictly after the time of the call: a Friday noon, later than now and at
\* most a week away.
NextFridayIsEarliest ==
  lastOp.op = "getNextFriday" =>
    /\ lastOp.result % (7 * DayMs) = 5 * DayMs + 12 * HourMs
    /\ lastOp.result > lastOp.arg[1]
    /\ lastOp.result - lastOp.arg[1] <= 7 * DayMs

\* the horsepower of the unit with this id in the fleet of pd
HpOf(pd, id) == FindById(pd.locomotives, id).horsepower

\* the first k ids of sel are the k strongest available units of pd, strongest
\* first, and they are the shortest such run that meets hpRequired
GreedyPrefix(pd, sel, k, hpRequired) ==
  /\ \A i \in 1..(k - 1) : HpOf(pd, sel[i]) >= HpOf(pd, sel[i + 1])
  /\ \A l \in Range(pd.locomotives) :
       (l.status = "available" /\ \A i \in 1..k : sel[i] # l.id) =>
         \A i \in 1..k : HpOf(pd, sel[i]) >= l.horsepower
  /\ totalSelectedHP(pd, SubSeq(sel, 1, k)) >= hpRequired
  /\ k > 0 => totalSelectedHP(pd, SubSeq(sel, 1, k - 1)) < hpRequired

AutoAssignInsufficient ==
  /\ lastOp.op = "assignRandom"
  /\ ~lastOp.ok
  /\ lastOp.why = "Insufficient Horsepower"

\* the paint job of l is finished at time t
PaintDone(l, t) ==
  l.status = "in_paint_shop" /\ "paintCompleteAt" \in DOMAIN l /\ l.paintCompleteAt <= t

\* C33: a run of the paint-completion sweep, started at time t, changes the
\* stored document in this way and no other: the units that are
\* in_paint_shop with paintCompleteAt <= t become available and lose their
\* paintCompleteAt; every other unit and every other field of the document
\* is as it was stored before the write.
PaintSweepFrame ==
  [][Did("paintSweep") =>
       LET t == lastOp'.arg
           old == doc.locomotives
           new == doc'.locomotives
       IN /\ \A k \in DOMAIN doc \ {"locomotives"} : doc'[k] = doc[k]
          /\ Len(new) = Len(old)
          /\ \A j \in 1..Len(old) :
               IF PaintDone(old[j], t)
               THEN /\ new[j].status = "available"
                    /\ DOMAIN new[j] = DOMAIN old[j] \ {"paintCompleteAt"}
                    /\ \A k \in DOMAIN new[j] \ {"status"} : new[j][k] = old[j][k]
               ELSE new[j] = old[j]]_vars

AssignedLocoHasJob ==
  \A l \in Range(doc.locomotives) :
     l.status = "assigned" =>
       \E j \in Range(doc.jobs) :
          /\ j.id = l.assignedJobId
          /\ j.status = "in_progress"
          /\ Includes(j.assignedLocos, l.id)

\* C36: in the stored document every id in the assignedLocos of an
\* in_progress job names a locomotive of the fleet with status assigned and
\* assignedJobId equal to the id of the job.
JobLocosCommitted ==
  \A j \in Range(doc.jobs) :
     j.status = "in_progress" =>
       \A i \in 1..Len(j.assignedLocos) :
          \E l \in Range(doc.locomotives) :
             /\ l.id = j.assignedLocos[i]
             /\ l.status = "assigned"
             /\ l.assignedJobId = j.id

\* C38: level 50 can be reached by earning xp: at the xp getXpForNextLevel
\* names for level 50 (its value for level 49), and at any xp above it,
\* calculateLevel gives a level of at least 50, so that handleClaimJob stores
\* a level that passes the check of a tier-3 job.
LevelFiftyReachable ==
  (lastOp.op = "calculateLevel" /\ lastOp.arg >= getXpForNextLevel(49)) =>
    lastOp.result >= 50

\* C39: the stored cash is never negative, and a new purchase, used purchase,
\* renumbering or paint operation succeeds only if its total cost (what it
\* charges) does not exceed the cash stored when it commits.
CashCoversCost ==
  [][/\ doc'.stats.cash >= 0
     /\ (/\ nops' # nops
         /\ lastOp'.op \in {"purchase", "usedPurchase", "rename", "paint"}
         /\ lastOp'.ok)
          => expectedCash - expectedCash' <= doc.stats.cash]_vars

====
